---- MODULE Spec2Model ----
(***************************************************************************)
(* The GPMF record decoder of src/byteorder_gpmf/mod.rs (parse_gpmf and    *)
(* Type::read) as a state machine over a stack of decoding frames.  One    *)
(* frame is one invocation of parse_gpmf over one buffer; a step is one    *)
(* phase of the decode loop (header, value by wire type, push and padding, *)
(* return).  Bytes are the integers 0..255; offsets are 0-based as in      *)
(* std::io::Cursor.                                                        *)
(***************************************************************************)
EXTENDS Integers, Sequences, FiniteSets, TLC

Min(a, b) == IF a < b THEN a ELSE b

(* buf[from .. from+n), 0-based *)
Slice(buf, from, n) == SubSeq(buf, from + 1, from + n)

(* ---------------------------------------------------------------------- *)
(* tags.rs: the FourCC dictionary                                          *)
(* ---------------------------------------------------------------------- *)

(* The `serialize` spelling of every variant of Tag except Other.  A known *)
(* tag is identified by these four bytes.                                  *)
TagSerialize ==
    { 
<<68,69,86,67>>, <<68,86,73,68>>, <<68,86,78,77>>, <<83,84,82,77>>,
      <<83,84,78,77>>, <<82,77,82,75>>, <<83,67,65,76>>, <<83,73,85,78>>,
      <<85,78,73,84>>, <<84,89,80,69>>, <<84,83,77,80>>, <<84,73,77,79>>,
      <<69,77,80,84>>, <<84,73,67,75>>, <<84,79,67,75>>, <<84,77,80,67>>,
      <<65,67,67,76>>, <<71,89,82,79>>, <<73,83,79,71>>, <<83,72,85,84>>,
      <<71,80,83,53>>, <<71,80,83,85>>, <<71,80,83,70>>, <<71,80,83,80>>,
      <<77,65,71,78>>, <<83,84,77,80>>, <<70,65,67,69>>, <<70,67,78,77>>,
      <<73,83,79,69>>, <<65,76,76,68>>, <<87,66,65,76>>, <<87,82,71,66>>,
      <<89,65,86,71>>, <<72,85,69,83>>, <<85,78,73,70>>, <<83,67,69,78>>,
      <<83,82,79,84>>, <<67,79,82,73>>, <<73,79,82,73>>, <<71,82,65,86>>,
      <<87,78,68,77>>, <<77,87,69,84>>, <<65,65,76,80>>, <<68,73,83,80>>,
      <<77,83,75,80>>, <<76,83,75,80>>, <<71,80,83,57>>, <<72,77,77,84>>,
      <<75,66,65,84>> }

(* strum's FromStr also accepts a variant's `to_string` spelling.  Only a  *)
(* four-character spelling can ever equal a key read from the stream:      *)
(* "Type" -> TYPE, "Temp" -> TMPC, "Gyro" -> GYRO.                         *)
TagToString4 ==
    { <<<<84,121,112,101>>, <<84,89,80,69>>>>, <<<<84,101,109,112>>, <<84,77,80,67>>>>, <<<<71,121,114,111>>, <<71,89,82,79>>>> }

TagTYPE == [known |-> TRUE, name |-> <<84,89,80,69>>]

(* Tag::try_from(&str): a known variant, or Other(raw) -- never an error.  *)
TagTryFrom(s) ==
    IF s \in TagSerialize THEN [known |-> TRUE, name |-> s]
    ELSE IF \E a \in TagToString4 : a[1] = s
         THEN [known |-> TRUE, name |-> (CHOOSE a \in TagToString4 : a[1] = s)[2]]
         ELSE [known |-> FALSE, name |-> s]

(* ---------------------------------------------------------------------- *)
(* types.rs: the wire types                                                *)
(* ---------------------------------------------------------------------- *)

(* enum Type, #[repr(u8)]: the discriminant byte of every variant.         *)
Type ==
    [ I8 |-> 98, U8 |-> 66, Char |-> 99, F64 |-> 100, F32 |-> 102,
      FourCC |-> 70, U128 |-> 71, I64 |-> 106, U64 |-> 74, I32 |-> 108,
      U32 |-> 76, Fixed32 |-> 113, Fixed64 |-> 81, I16 |-> 115, U16 |-> 83,
      Date |-> 85, Complex |-> 63, Nested |-> 0 ]

TypeNames == DOMAIN Type

(* A try_from that has no variant for the NUL discriminant.                *)
TypeTryFromNoNul(b) ==
    IF b # 0 /\ \E t \in TypeNames : Type[t] = b
    THEN [ok |-> TRUE, typ |-> CHOOSE t \in TypeNames : Type[t] = b]
    ELSE [ok |-> FALSE, typ |-> "none"]

(* Type::try_from(u8), derived by TryFromPrimitive.                        *)
TypeTryFrom(b) ==
    IF \E t \in TypeNames : Type[t] = b
    THEN [ok |-> TRUE, typ |-> CHOOSE t \in TypeNames : Type[t] = b]
    ELSE [ok |-> FALSE, typ |-> "none"]

(* Type::size                                                              *)
TypeSize(t) ==
    CASE t \in {"I8", "U8", "Char"} -> 1
      [] t \in {"I16", "U16"} -> 2
      [] t \in {"F32", "FourCC", "I32", "U32", "Fixed32"} -> 4
      [] t \in {"F64", "I64", "U64", "Fixed64"} -> 8
      [] t \in {"U128", "Date"} -> 16
      [] t = "Complex" -> 1
      [] t = "Nested" -> 1

(* ---------------------------------------------------------------------- *)
(* byteorder_gpmf/mod.rs: Type::read and read_tag                          *)
(* ---------------------------------------------------------------------- *)

Digit(b) == b \in 48..57

D2(s, i) == (s[i] - 48) * 10 + (s[i + 1] - 48)

DaysIn(yy, m) ==
    IF m = 2 THEN (IF yy % 4 = 0 THEN 29 ELSE 28)
    ELSE IF m \in {4, 6, 9, 11} THEN 30 ELSE 31

(* Utc.datetime_from_str(s, DATE_FORMAT) is Ok, DATE_FORMAT =              *)
(* "%y%m%d%H%M%S%.3f", for a 16-byte field in the layout yymmddhhmmss.sss. *)
(* (chrono also accepts blank-padded fields; no input of this model        *)
(* contains a blank.)                                                      *)
DateParses(s) ==
    /\ Len(s) = 16
    /\ \A i \in (1..12) \cup (14..16) : Digit(s[i])
    /\ s[13] = 46
    /\ D2(s, 3) \in 1..12
    /\ D2(s, 5) \in 1..DaysIn(D2(s, 1), D2(s, 3))
    /\ D2(s, 7) <= 23
    /\ D2(s, 9) <= 59
    /\ D2(s, 11) <= 60

(* A read_tag whose Tag::try_from has no default variant: a key outside    *)
(* the dictionary is an error.                                             *)
read_tag_no_default(buf, pos) ==
    IF Len(buf) - pos < 4 \/ ~TagTryFrom(Slice(buf, pos, 4)).known
    THEN [st |-> "eof", pos |-> pos, tag |-> TagTryFrom(<<>>)]
    ELSE [st |-> "ok", pos |-> pos + 4, tag |-> TagTryFrom(Slice(buf, pos, 4))]

(* read_tag: four bytes, then Tag::try_from.  Fails only on a short read.  *)
read_tag(buf, pos) ==
    IF Len(buf) - pos < 4
    THEN [st |-> "eof", pos |-> pos, tag |-> TagTryFrom(<<>>)]
    ELSE [st |-> "ok", pos |-> pos + 4, tag |-> TagTryFrom(Slice(buf, pos, 4))]

(* A scalar read that takes what is left when the buffer ends early and    *)
(* reports no failure.                                                     *)
TypeReadLenient(t, buf, pos) ==
    IF t \in {"Complex", "Nested"}
    THEN [st |-> "unimpl", pos |-> pos, val |-> [kind |-> t, v |-> <<>>]]
    ELSE LET got == Slice(buf, pos, Min(TypeSize(t), Len(buf) - pos))
         IN  [st |-> "ok", pos |-> pos + Len(got),
              val |-> IF t = "FourCC" THEN [kind |-> "Tag", v |-> TagTryFrom(got)]
                      ELSE [kind |-> t, v |-> got]]

(* Type::read: one scalar of wire type t at the cursor.  A scalar is kept  *)
(* as its big-endian bit pattern v (from_be_bytes reinterprets the bytes). *)
(* st is "ok", "eof" (the `?` on a short read), "date" (the unwrap of the  *)
(* timestamp parse) or "unimpl" (the unimplemented! arm).                  *)
TypeRead(t, buf, pos) ==
    IF t \in {"Complex", "Nested"}
    THEN [st |-> "unimpl", pos |-> pos, val |-> [kind |-> t, v |-> <<>>]]
    ELSE IF t = "FourCC"
    THEN LET r == read_tag(buf, pos)
         IN  [st |-> r.st, pos |-> r.pos, val |-> [kind |-> "Tag", v |-> r.tag]]
    ELSE IF Len(buf) - pos < TypeSize(t)
    THEN [st |-> "eof", pos |-> pos, val |-> [kind |-> t, v |-> <<>>]]
    ELSE IF t = "Date" /\ ~DateParses(Slice(buf, pos, 16))
    THEN [st |-> "date", pos |-> pos + 16, val |-> [kind |-> t, v |-> <<>>]]
    ELSE [st |-> "ok", pos |-> pos + TypeSize(t),
          val |-> [kind |-> t, v |-> Slice(buf, pos, TypeSize(t))]]

(* An inner loop that walks the entries of types from the last to the      *)
(* first.                                                                  *)
RECURSIVE ReadElemsLastFirst(_, _, _, _)
ReadElemsLastFirst(types, buf, pos, acc) ==
    IF types = <<>> THEN [st |-> "ok", pos |-> pos, vals |-> acc]
    ELSE LET r == TypeRead(types[Len(types)], buf, pos)
         IN  IF r.st # "ok" THEN [st |-> r.st, pos |-> r.pos, vals |-> acc]
             ELSE ReadElemsLastFirst(SubSeq(types, 1, Len(types) - 1), buf,
                                     r.pos, Append(acc, r.val))

(* The inner loops of the Complex and simple branches: read one value per  *)
(* entry of types, in order, stopping at the first read that fails.        *)
RECURSIVE ReadElems(_, _, _, _)
ReadElems(types, buf, pos, acc) ==
    IF types = <<>> THEN [st |-> "ok", pos |-> pos, vals |-> acc]
    ELSE LET r == TypeRead(Head(types), buf, pos)
         IN  IF r.st # "ok" THEN [st |-> r.st, pos |-> r.pos, vals |-> acc]
             ELSE ReadElems(Tail(types), buf, r.pos, Append(acc, r.val))

(* The outer loop `for i in 0..repeat`: n element-sequences.               *)
RECURSIVE ReadRows(_, _, _, _, _)
ReadRows(types, n, buf, pos, acc) ==
    IF n = 0 THEN [st |-> "ok", pos |-> pos, vals |-> acc]
    ELSE LET r == ReadElems(types, buf, pos, <<>>)
         IN  IF r.st # "ok" THEN [st |-> r.st, pos |-> r.pos, vals |-> acc]
             ELSE ReadRows(types, n - 1, buf, r.pos, Append(acc, r.vals))

(* input.by_ref().take(n).read_to_end(&mut vec): up to n bytes, never an   *)
(* error.                                                                  *)
TakeRead(buf, pos, n) == Slice(buf, pos, Min(n, Len(buf) - pos))

(* A run that is kept whole, NUL bytes and what follows them included.     *)
TakeWhileAll(vec) == vec

(* vec.into_iter().take_while(|b| *b != 0)                                 *)
RECURSIVE TakeWhileNonZero(_)
TakeWhileNonZero(vec) ==
    IF vec = <<>> \/ Head(vec) = 0 THEN <<>>
    ELSE <<Head(vec)>> \o TakeWhileNonZero(Tail(vec))

(* A loop that reads NUL-terminated strings back to back: the next string  *)
(* starts right after the NUL of the one before.                           *)
RECURSIVE ReadStringsPacked(_, _, _, _, _)
ReadStringsPacked(width, n, buf, pos, acc) ==
    IF n = 0 THEN [pos |-> pos, vals |-> acc]
    ELSE LET vec == TakeRead(buf, pos, width)
             pre == TakeWhileNonZero(vec)
         IN  ReadStringsPacked(width, n - 1, buf,
                               pos + Min(Len(pre) + 1, Len(vec)), Append(acc, pre))

(* The multi-element Char loop: n fields of width bytes each, each cut at  *)
(* its first NUL.                                                          *)
RECURSIVE ReadStrings(_, _, _, _, _)
ReadStrings(width, n, buf, pos, acc) ==
    IF n = 0 THEN [pos |-> pos, vals |-> acc]
    ELSE LET vec == TakeRead(buf, pos, width)
         IN  ReadStrings(width, n - 1, buf, pos + Len(vec),
                         Append(acc, TakeWhileNonZero(vec)))

(* The 8 bits of a byte, the most significant first.                       *)
BitsOfByte(b) == [i \in 1..8 |-> (b \div (2 ^ (8 - i))) % 2]

(* A bit pattern taken from the bytes with the first byte least            *)
(* significant.                                                            *)
FromLeBytes(bytes) ==
    [j \in 1..(8 * Len(bytes)) |->
        BitsOfByte(bytes[Len(bytes) - ((j - 1) \div 8)])[((j - 1) % 8) + 1]]

(* I16F16::from_be_bytes / I32F32::from_be_bytes: the bit pattern of the   *)
(* fixed-point number, sign bit first; the first byte is the most          *)
(* significant.                                                            *)
FromBeBytes(bytes) ==
    [j \in 1..(8 * Len(bytes)) |->
        BitsOfByte(bytes[((j - 1) \div 8) + 1])[((j - 1) % 8) + 1]]

(* The carry into bit i of the two's-complement sum of a and b.            *)
RECURSIVE CarryInto(_, _, _)
CarryInto(a, b, i) ==
    IF i = Len(a) THEN 0
    ELSE (a[i + 1] + b[i + 1] + CarryInto(a, b, i + 1)) \div 2

(* `max + min` on two fixed-point numbers of one type: the sum of the bit  *)
(* patterns as signed integers.  overflow tells that the sum is not        *)
(* representable (the carry into the sign bit differs from the carry out   *)
(* of it); bits is the wrapped pattern.                                    *)
FixedAdd(a, b) ==
    [ overflow |-> CarryInto(a, b, 1) # (a[1] + b[1] + CarryInto(a, b, 1)) \div 2,
      bits |-> [i \in 1..Len(a) |-> (a[i] + b[i] + CarryInto(a, b, i)) % 2] ]

(* ---------------------------------------------------------------------- *)
(* parse_gpmf: the per-record arithmetic                                   *)
(* ---------------------------------------------------------------------- *)

NoTypeDef == [some |-> FALSE, v |-> <<>>]

(* A TYPE record whose sequence is emitted but not remembered.             *)
TypeDefNotStored(v) == [some |-> FALSE, v |-> <<>>]

SomeTypeDef(v) == [some |-> TRUE, v |-> v]

RECURSIVE SumSizes(_)
SumSizes(types) ==
    IF types = <<>> THEN 0 ELSE TypeSize(Head(types)) + SumSizes(Tail(types))

(* A width taken from the catalog for every type, Complex included.        *)
TypeSizeFromCatalog(typ, type_def) == TypeSize(typ)

(* type_size, for a record that passed the unwrap of type_def              *)
TypeSizeOf(typ, type_def) ==
    IF typ = "Complex" THEN SumSizes(type_def.v) ELSE TypeSize(typ)

(* An element count that takes the size byte as it stands.                 *)
NumElementsIsSize(size, type_size) == size

(* num_elements                                                            *)
NumElements(size, type_size) ==
    IF type_size # 0 THEN size \div type_size ELSE 0

(* padding_bytes                                                           *)
PaddingBytes(num_bytes) ==
    LET mod4 == num_bytes % 4 IN IF mod4 = 0 THEN 0 ELSE 4 - mod4

(* ---------------------------------------------------------------------- *)
(* Inputs                                                                  *)
(* ---------------------------------------------------------------------- *)

(* An 8-byte record header: key, type tag, size, big-endian repeat.        *)
Hdr(key, t, size, repeat) == key \o <<t, size, repeat \div 256, repeat % 256>>

KeyTYPE == <<84, 89, 80, 69>>
KeyDEVC == <<68, 69, 86, 67>>
KeySTNM == <<83, 84, 78, 77>>
KeyGYRO == <<71, 89, 82, 79>>
KeyTEST == <<84, 69, 83, 84>>   \* "TEST": not in the dictionary

(* Building blocks of the inputs: whole records (RecTypeB is a TYPE record *)
(* and the Complex record it governs), bare Nested headers whose payload   *)
(* is whatever follows, and a truncated header.                            *)
RecU32       == Hdr(KeyTEST, 76, 4, 1) \o <<0, 0, 0, 1>>
RecTypeLs    == Hdr(KeyTYPE, 99, 1, 2) \o <<76, 115, 0, 0>>
RecTypeEmpty == Hdr(KeyTYPE, 99, 1, 0)
RecTypeBad   == Hdr(KeyTYPE, 99, 1, 2) \o <<76, 120, 0, 0>>
RecTypeCplx  == Hdr(KeyTYPE, 99, 1, 1) \o <<63, 0, 0, 0>>
RecComplex6  == Hdr(KeyGYRO, 63, 6, 1) \o <<0, 0, 0, 7, 0, 9, 0, 0>>
RecString    == Hdr(KeyTEST, 99, 1, 5) \o <<97, 98, 0, 99, 100, 0, 0, 0>>
RecStrings   == Hdr(KeySTNM, 99, 2, 2) \o <<97, 0, 98, 99>>
RecU16Odd    == Hdr(KeyTEST, 83, 3, 2) \o <<0, 1, 2, 0, 3, 4, 0, 0>>
RecDate      == Hdr(KeyTEST, 85, 16, 1)
                \o <<50, 51, 48, 51, 50, 51, 49, 57, 49, 56, 48, 52, 46, 49, 50, 51>>
RecDateBad   == Hdr(KeyTEST, 85, 16, 1)
                \o <<50, 51, 49, 51, 50, 51, 49, 57, 49, 56, 48, 52, 46, 49, 50, 51>>
RecTypeB     == Hdr(KeyTYPE, 99, 1, 1) \o <<66, 0, 0, 0>>
                \o Hdr(KeyGYRO, 63, 1, 1) \o <<5, 0, 0, 0>>
HdrNest24    == Hdr(KeyDEVC, 0, 24, 1)
HdrNest12    == Hdr(KeyDEVC, 0, 12, 1)
HdrNest6     == Hdr(KeyDEVC, 0, 6, 1)
Trunc3       == <<68, 69, 86>>

Chunks ==
    << RecU32, RecTypeLs, RecTypeEmpty, RecTypeBad, RecTypeCplx,
       RecComplex6, RecString, RecStrings, RecU16Odd, RecDate, RecDateBad,
       RecTypeB, HdrNest12, HdrNest24, HdrNest6, Trunc3 >>

(* at most this many building blocks per input                             *)
MaxChunks == 3

RECURSIVE Concat(_)
Concat(ss) == IF ss = <<>> THEN <<>> ELSE Head(ss) \o Concat(Tail(ss))

InputsOf(n) ==
    { Concat([i \in 1..n |-> Chunks[c[i]]]) : c \in [1..n -> 1..Len(Chunks)] }

ChunkInputs == UNION { InputsOf(n) : n \in 0..MaxChunks }

(* One record after an optional TYPE record, sweeping the header fields:   *)
(* every type-tag byte, a known, an unknown and the TYPE key.              *)
SweepKeys    == {KeyDEVC, KeyTEST, KeyTYPE}
SweepSizes   == {0, 1, 4}
SweepRepeats == {0, 1, 2}
SweepPrefix  == {<<>>, RecTypeLs}
SweepPayload == <<0, 0, 0, 7, 0, 9, 76, 0>>

SweepInputs ==
    { p \o Hdr(k, t, sz, rp) \o SweepPayload :
        p \in SweepPrefix, k \in SweepKeys, t \in 0..255,
        sz \in SweepSizes, rp \in SweepRepeats }

(* One record of every wire type that ends with the buffer: its payload is *)
(* there in full but not its padding, or the payload lacks its last byte.  *)
TailSizes   == {1, 2, 3, 4, 8, 16}
TailRepeats == {1, 2}

Fill(n) == [i \in 1..n |-> 97]

TailInputs ==
    { Hdr(KeyTEST, Type[t], sz, rp) \o Fill(sz * rp - cut) :
        t \in TypeNames, sz \in TailSizes, rp \in TailRepeats, cut \in {0, 1} }

(* Records of two fixed-point numbers over the boundary bit patterns of    *)
(* the width: MAX, MIN, 0, -1 and 1.                                       *)
MaxBytes(w) == [i \in 1..w |-> IF i = 1 THEN 127 ELSE 255]
MinBytes(w) == [i \in 1..w |-> IF i = 1 THEN 128 ELSE 0]
FixedPatterns(w) ==
    { MaxBytes(w), MinBytes(w), [i \in 1..w |-> 0], [i \in 1..w |-> 255],
      [i \in 1..w |-> IF i = w THEN 1 ELSE 0] }
FixedInputsOf(t) ==
    { Hdr(KeyTEST, Type[t], TypeSize(t), 2) \o a \o b :
        a \in FixedPatterns(TypeSize(t)), b \in FixedPatterns(TypeSize(t)) }
FixedInputs == FixedInputsOf("Fixed32") \cup FixedInputsOf("Fixed64")

(* A Complex record under the empty template set by TYPE 'c' 01 00 00,     *)
(* with its payload and padding, alone or followed by a U32 record.        *)
EmptyTplSizes   == {0, 1, 4}
EmptyTplRepeats == {0, 1, 2}
EmptyTplInputs ==
    { RecTypeEmpty \o Hdr(KeyGYRO, 63, sz, rp)
          \o Fill(sz * rp + PaddingBytes(sz * rp)) \o tl :
        sz \in EmptyTplSizes, rp \in EmptyTplRepeats, tl \in {<<>>, RecU32} }

(* A template of one primitive type and a Complex record of one scalar of  *)
(* it, whole or one byte short.                                            *)
OneScalarInputs ==
    { Hdr(KeyTYPE, 99, 1, 1) \o <<Type[t], 0, 0, 0>>
          \o Hdr(KeyGYRO, 63, TypeSize(t), 1) \o Fill(TypeSize(t) - cut) :
        t \in TypeNames \ {"Complex", "Nested"}, cut \in {0, 1} }

Inputs ==
    ChunkInputs \cup SweepInputs \cup TailInputs \cup FixedInputs
        \cup EmptyTplInputs \cup OneScalarInputs

(* ---------------------------------------------------------------------- *)
(* parse_gpmf as a state machine                                           *)
(* ---------------------------------------------------------------------- *)

VARIABLES
    input,      \* the buffer handed to the top-level call
    stack,      \* the active frames, the running one last
    outcome,    \* "running", or how the top-level call ended: "Ok", "Err", "panic"
    error,      \* which failure ended it ("none" while there is none)
    result      \* the Vec<KeyValue> returned with Ok

vars == <<input, stack, outcome, error, result>>

NoTag == [known |-> FALSE, name |-> <<>>]

NoValue == [kind |-> "none", v |-> <<>>]

(* The locals of one call: type_def = None, res = Vec::new(), the cursor   *)
(* at 0.  The fields from hdr on are the locals of the loop body, kept     *)
(* until the next header overwrites them.                                  *)
NewFrame(buf) ==
    [ buf |-> buf, pos |-> 0, type_def |-> NoTypeDef, res |-> <<>>,
      pc |-> "loop", hdr |-> 0, tag |-> NoTag, typ |-> "none", size |-> 0,
      repeat |-> 0, num_elements |-> 0, value |-> NoValue ]

Top == stack[Len(stack)]

Left(f) == Len(f.buf) - f.pos

(* num_bytes                                                               *)
NumBytes(f) == f.size * f.repeat

(* A loop condition that asks for a whole header instead.                  *)
HasFullHeader(f) == Left(f) >= 8

(* input.has_data_left()                                                   *)
HasDataLeft(f) == Left(f) > 0

SetTop(f) == stack' = [stack EXCEPT ![Len(stack)] = f]

(* An Err carried up by `?` through every frame, or a panic: the call is   *)
(* over.  stack keeps the frames as they were when it happened.            *)
Fail(how, what) ==
    /\ outcome' = how
    /\ error' = what
    /\ UNCHANGED <<input, stack, result>>

Init ==
    /\ input \in Inputs
    /\ stack = <<NewFrame(input)>>
    /\ outcome = "running"
    /\ error = "none"
    /\ result = <<>>


(* The head of the loop body: the header, type_size, num_elements.         *)
ReadHeader ==
    /\ outcome = "running"
    /\ Top.pc = "loop"
    /\ HasDataLeft(Top)
    /\ LET f  == Top
           t  == read_tag(f.buf, f.pos)
           ty == TypeTryFrom(f.buf[f.pos + 5])
           size   == f.buf[f.pos + 6]
           repeat == f.buf[f.pos + 7] * 256 + f.buf[f.pos + 8]
       IN  IF t.st # "ok" THEN Fail("Err", "UnexpectedEof")
           ELSE IF Left(f) < 5 THEN Fail("Err", "UnexpectedEof")
           ELSE IF ~ty.ok THEN Fail("Err", "TryFromPrimitiveError")
           ELSE IF Left(f) < 8 THEN Fail("Err", "UnexpectedEof")
           ELSE IF ty.typ = "Complex" /\ ~f.type_def.some
                THEN Fail("panic", "type_def unwrap")
           ELSE /\ SetTop([f EXCEPT !.hdr = f.pos, !.pos = f.pos + 8,
                                    !.tag = t.tag, !.typ = ty.typ,
                                    !.size = size, !.repeat = repeat,
                                    !.num_elements =
                                        NumElements(size, TypeSizeOf(ty.typ, f.type_def)),
                                    !.value = NoValue, !.pc = "value"])
                /\ UNCHANGED <<input, outcome, error, result>>

(* Type::Char                                                              *)
ReadChar ==
    /\ outcome = "running"
    /\ Top.pc = "value"
    /\ Top.typ = "Char"
    /\ LET f == Top IN
       IF f.num_elements = 1
       THEN LET vec == TakeRead(f.buf, f.pos, f.repeat)
                pre == TakeWhileNonZero(vec)
            IN  IF f.tag # TagTYPE
                THEN /\ SetTop([f EXCEPT !.pos = f.pos + Len(vec),
                                         !.value = [kind |-> "String", v |-> pre],
                                         !.pc = "push"])
                     /\ UNCHANGED <<input, outcome, error, result>>
                ELSE IF \E i \in 1..Len(pre) : ~TypeTryFrom(pre[i]).ok
                THEN Fail("panic", "Type::try_from unwrap")
                ELSE LET v == [i \in 1..Len(pre) |-> TypeTryFrom(pre[i]).typ]
                     IN  /\ SetTop([f EXCEPT !.pos = f.pos + Len(vec),
                                             !.type_def = SomeTypeDef(v),
                                             !.value = [kind |-> "Type", v |-> v],
                                             !.pc = "push"])
                         /\ UNCHANGED <<input, outcome, error, result>>
       ELSE LET r == ReadStrings(f.num_elements, f.repeat, f.buf, f.pos, <<>>)
            IN  /\ SetTop([f EXCEPT !.pos = r.pos,
                                    !.value = [kind |-> "Strings", v |-> r.vals],
                                    !.pc = "push"])
                /\ UNCHANGED <<input, outcome, error, result>>

(* How a failed Type::read ends the call.                                  *)
FailRead(st) ==
    IF st = "eof" THEN Fail("Err", "UnexpectedEof")
    ELSE IF st = "date" THEN Fail("panic", "datetime_from_str unwrap")
    ELSE Fail("panic", "unimplemented")

(* Type::Complex                                                           *)
ReadComplex ==
    /\ outcome = "running"
    /\ Top.pc = "value"
    /\ Top.typ = "Complex"
    /\ LET f == Top IN
       IF ~f.type_def.some THEN Fail("Err", "TYPE must be set")
       ELSE LET r == ReadRows(f.type_def.v, f.repeat, f.buf, f.pos, <<>>)
            IN  IF r.st # "ok" THEN FailRead(r.st)
                ELSE /\ SetTop([f EXCEPT !.pos = r.pos,
                                         !.value = [kind |-> "Complex", v |-> r.vals],
                                         !.pc = "push"])
                     /\ UNCHANGED <<input, outcome, error, result>>

(* A recursive call that is handed the caller's type_def.                  *)
NestedFrameInherits(f) ==
    [NewFrame(Slice(f.buf, f.pos, NumBytes(f))) EXCEPT !.type_def = f.type_def]

(* The frame of the recursive call: &input.remaining_slice()[..num_bytes]  *)
NestedFrame(f) == NewFrame(Slice(f.buf, f.pos, NumBytes(f)))

(* A recursive call that is handed the caller's whole buffer.              *)
CallNestedOnWhole ==
    /\ outcome = "running"
    /\ Top.pc = "value"
    /\ Top.typ = "Nested"
    /\ LET f == Top IN
       IF NumBytes(f) > Left(f) THEN Fail("panic", "slice index")
       ELSE /\ stack' = Append([stack EXCEPT ![Len(stack)] = [f EXCEPT !.pc = "call"]],
                               NewFrame(f.buf))
            /\ UNCHANGED <<input, outcome, error, result>>

(* Type::Nested, up to the recursive call.  The caller's cursor stays      *)
(* where it is: remaining_slice borrows the bytes without reading them.    *)
CallNested ==
    /\ outcome = "running"
    /\ Top.pc = "value"
    /\ Top.typ = "Nested"
    /\ LET f == Top IN
       IF NumBytes(f) > Left(f) THEN Fail("panic", "slice index")
       ELSE /\ stack' = Append([stack EXCEPT ![Len(stack)] = [f EXCEPT !.pc = "call"]],
                               NestedFrame(f))
            /\ UNCHANGED <<input, outcome, error, result>>

(* Any other type: repeat sequences of num_elements scalars                *)
ReadSimple ==
    /\ outcome = "running"
    /\ Top.pc = "value"
    /\ Top.typ \notin {"Char", "Complex", "Nested"}
    /\ LET f == Top
           r == ReadRows([i \in 1..f.num_elements |-> f.typ], f.repeat,
                         f.buf, f.pos, <<>>)
       IN  IF r.st # "ok" THEN FailRead(r.st)
           ELSE /\ SetTop([f EXCEPT !.pos = r.pos,
                                    !.value = [kind |-> "Simple", v |-> r.vals],
                                    !.pc = "push"])
                /\ UNCHANGED <<input, outcome, error, result>>

(* A push that puts the new record in front of the ones already there.     *)
PushRecordFront ==
    /\ outcome = "running"
    /\ Top.pc = "push"
    /\ LET f == Top IN
       /\ SetTop([f EXCEPT !.res = <<[key |-> f.tag, value |-> f.value]>> \o f.res,
                           !.pos = f.pos + Min(PaddingBytes(NumBytes(f)), Left(f)),
                           !.pc = "loop"])
       /\ UNCHANGED <<input, outcome, error, result>>

(* res.push(key_value), then io::copy of up to padding_bytes into a sink   *)
PushRecord ==
    /\ outcome = "running"
    /\ Top.pc = "push"
    /\ LET f == Top IN
       /\ SetTop([f EXCEPT !.res = Append(f.res, [key |-> f.tag, value |-> f.value]),
                           !.pos = f.pos + Min(PaddingBytes(NumBytes(f)), Left(f)),
                           !.pc = "loop"])
       /\ UNCHANGED <<input, outcome, error, result>>

(* Ok(res) of a recursive call: the caller wraps it in Value::Nested       *)
ReturnNested ==
    /\ outcome = "running"
    /\ Len(stack) > 1
    /\ Top.pc = "loop"
    /\ ~HasDataLeft(Top)
    /\ LET caller == stack[Len(stack) - 1] IN
       stack' = [SubSeq(stack, 1, Len(stack) - 1) EXCEPT ![Len(stack) - 1] =
                    [caller EXCEPT !.value = [kind |-> "Nested", v |-> Top.res],
                                   !.pc = "push"]]
    /\ UNCHANGED <<input, outcome, error, result>>

(* Ok(res) of the top-level call                                           *)
ReturnTop ==
    /\ outcome = "running"
    /\ Len(stack) = 1
    /\ Top.pc = "loop"
    /\ ~HasDataLeft(Top)
    /\ outcome' = "Ok"
    /\ result' = Top.res
    /\ UNCHANGED <<input, stack, error>>

Next ==
    \/ ReadHeader
    \/ ReadChar
    \/ ReadComplex
    \/ CallNested
    \/ ReadSimple
    \/ PushRecord
    \/ ReturnNested
    \/ ReturnTop

Spec == Init /\ [][Next]_vars

(* ---------------------------------------------------------------------- *)
(* Properties                                                              *)
(* ---------------------------------------------------------------------- *)

AtHeader == outcome = "running" /\ Top.pc = "loop"

(* the type-tag byte of the header at the cursor of f                      *)
TypeByteAt(f) == f.buf[f.pos + 5]

(* the key bytes of the header at the cursor of f                          *)
KeyAt(f) == Slice(f.buf, f.pos, 4)

(* size * repeat of the first header of the input                          *)
FirstNumBytes == input[6] * (input[7] * 256 + input[8])

(* C1: whatever the input, parse_gpmf ends by returning a record sequence  *)
(* or an error value; it never panics.                                     *)
C1_NeverPanics == outcome # "panic"

(* C2: a Complex record reached while the frame has no Type-Template makes *)
(* the decode fail with the reported error "TYPE must be set"; with a      *)
(* template set by an earlier TYPE record of the frame it goes on to be    *)
(* decoded.                                                                *)
C2_ComplexWithoutTemplateIsErr ==
    [][ (AtHeader /\ Left(Top) >= 8 /\ TypeByteAt(Top) = 63)
        => IF Top.type_def.some
           THEN outcome' = "running" /\ Top'.typ = "Complex"
           ELSE outcome' = "Err" /\ error' = "TYPE must be set" ]_vars

(* C3: once a Nested record is decoded the cursor of its frame is exactly  *)
(* size * repeat bytes past the 8-byte header, and the next sibling header *)
(* is read at header offset + 8 + size * repeat + padding.                 *)
C3_NestedAdvancesCursor ==
    \A d \in 1..Len(stack) :
        LET f == stack[d] IN
        f.typ = "Nested" =>
            /\ f.pc = "push" => f.pos = f.hdr + 8 + NumBytes(f)
            /\ (f.pc = "loop" /\ HasDataLeft(f)) =>
                   f.pos = f.hdr + 8 + NumBytes(f) + PaddingBytes(NumBytes(f))

(* C4: for an input that is one Nested record holding well-formed child    *)
(* records, the top-level output is exactly one record, the Nested one;    *)
(* the children are not emitted again as its siblings.                     *)
C4_NestedChildrenOnlyInside ==
    ( /\ outcome = "Ok"
      /\ Len(input) >= 8
      /\ input[5] = 0
      /\ Len(input) = 8 + FirstNumBytes + PaddingBytes(FirstNumBytes) )
    => (Len(result) = 1 /\ result[1].value.kind = "Nested")

(* C5: a template set by a TYPE record inside a Nested payload is gone     *)
(* when the nested decode returns: a Complex record that follows the       *)
(* Nested record in a frame with no TYPE record of its own is never        *)
(* decoded with it.                                                        *)
C5_NestedTemplateForgotten ==
    ( /\ Len(input) >= 8
      /\ input[5] = 0
      /\ FirstNumBytes % 4 = 0
      /\ Len(input) >= 8 + FirstNumBytes + 8
      /\ input[8 + FirstNumBytes + 5] = 63 )
    => ~( /\ stack[1].hdr = 8 + FirstNumBytes
          /\ stack[1].typ = "Complex"
          /\ stack[1].pc \in {"value", "push"} )

(* the records of frame f, the one about to be pushed included             *)
RecordsOf(f) ==
    f.res \o (IF f.pc = "push" THEN <<[key |-> f.tag, value |-> f.value]>> ELSE <<>>)

TypeRecordsOf(f) == {i \in 1..Len(RecordsOf(f)) : RecordsOf(f)[i].value.kind = "Type"}

LastOf(S) == CHOOSE i \in S : \A j \in S : j <= i

(* C6: the decode of a Nested payload starts with no Type-Template and     *)
(* never gets one from the parent: in every nested frame the template is   *)
(* the one of the last TYPE record decoded in that frame, and there is     *)
(* none while the frame has decoded no TYPE record.                        *)
C6_NestedFrameOwnTemplate ==
    \A d \in 2..Len(stack) :
        LET f == stack[d] IN
        IF TypeRecordsOf(f) = {}
        THEN ~f.type_def.some
        ELSE /\ f.type_def.some
             /\ f.type_def.v = RecordsOf(f)[LastOf(TypeRecordsOf(f))].value.v

(* a Complex record of a nested payload decoded with the payload's own     *)
(* template while the parent holds a different one                         *)
C6_Witness ==
    /\ Len(stack) = 2
    /\ stack[1].type_def.some
    /\ stack[2].typ = "Complex"
    /\ stack[2].pc = "push"
    /\ stack[2].type_def.v # stack[1].type_def.v

(* C7: with 1 to 7 bytes left at a record boundary the decode fails: the   *)
(* top-level call ends with an error and returns no records.               *)
C7_TruncatedHeaderIsErr ==
    [][ (AtHeader /\ Left(Top) \in 1..7)
        => (outcome' = "Err" /\ result' = <<>>) ]_vars

(* the call failed on a truncated header after completing records          *)
C7_Witness ==
    /\ outcome = "Err"
    /\ error = "UnexpectedEof"
    /\ Top.pc = "loop"
    /\ Left(Top) \in 1..7
    /\ Len(stack[1].res) > 0
    /\ result = <<>>

(* the 18 recognized type-tag bytes: b B c d f F G j J l L q Q s S U ? NUL *)
RecognizedTags ==
    {98, 66, 99, 100, 102, 70, 71, 106, 74, 108, 76, 113, 81, 115, 83, 85, 63, 0}

(* C8: a header whose type-tag byte is not one of the 18 recognized bytes  *)
(* makes the decode fail with an error; each recognized byte, NUL          *)
(* included, resolves to the wire type with that discriminant.             *)
C8_UnknownTypeIsErr ==
    [][ (AtHeader /\ Left(Top) >= 5)
        => IF TypeByteAt(Top) \notin RecognizedTags
           THEN outcome' = "Err" /\ error' = "TryFromPrimitiveError"
           ELSE /\ error' # "TryFromPrimitiveError"
                /\ outcome' = "running" => Type[Top'.typ] = TypeByteAt(Top) ]_vars

(* the call failed on an unrecognized type-tag byte                        *)
C8_Witness ==
    /\ outcome = "Err"
    /\ error = "TryFromPrimitiveError"
    /\ Left(Top) >= 5
    /\ TypeByteAt(Top) \notin RecognizedTags

(* the Value variant a record of wire type typ decodes to under a key      *)
(* that is not TYPE                                                        *)
PlainKind(typ, num_elements) ==
    IF typ = "Char" THEN (IF num_elements = 1 THEN "String" ELSE "Strings")
    ELSE IF typ = "Complex" THEN "Complex"
    ELSE IF typ = "Nested" THEN "Nested"
    ELSE "Simple"

(* C9: a key outside the dictionary never fails the decode: a header that  *)
(* is otherwise readable is accepted with the key kept as Other(raw four   *)
(* characters), and the value is decoded by the wire type alone, without   *)
(* touching the Type-Template.                                             *)
C9_UnknownKeyKept ==
    [][ /\ ( /\ AtHeader /\ Left(Top) >= 8
             /\ ~TagTryFrom(KeyAt(Top)).known
             /\ TypeByteAt(Top) \in RecognizedTags
             /\ ~(TypeByteAt(Top) = 63 /\ ~Top.type_def.some) )
           => ( /\ outcome' = "running"
                /\ Top'.tag = [known |-> FALSE, name |-> KeyAt(Top)] )
        /\ ( /\ outcome = "running" /\ Top.pc = "value" /\ ~Top.tag.known
             /\ outcome' = "running" /\ Top'.pc = "push" )
           => ( /\ Top'.type_def = Top.type_def
                /\ Top'.value.kind = PlainKind(Top.typ, Top.num_elements) ) ]_vars

(* a Char record under the unknown key "TEST" came out as a string         *)
C9_Witness ==
    /\ outcome = "Ok"
    /\ Len(result) >= 1
    /\ result[Len(result)].key = [known |-> FALSE, name |-> KeyTEST]
    /\ result[Len(result)].value.kind = "String"

(* C10: a TYPE record (Char, size 1) whose bytes before the first NUL      *)
(* include an unrecognized type tag is not an error: the record is decoded *)
(* to a Type value and decoding continues.                                 *)
C10_UnknownTemplateEntryKept ==
    [][ ( /\ outcome = "running" /\ Top.pc = "value"
          /\ Top.typ = "Char" /\ Top.num_elements = 1 /\ Top.tag = TagTYPE
          /\ LET pre == TakeWhileNonZero(TakeRead(Top.buf, Top.pos, Top.repeat))
             IN  \E i \in 1..Len(pre) : pre[i] \notin RecognizedTags )
        => ( /\ outcome' = "running"
             /\ Top'.pc = "push"
             /\ Top'.value.kind = "Type" ) ]_vars

(* C11: a timestamp whose 16 bytes do not parse under yymmddhhmmss.sss is  *)
(* an ordinary decode failure: the caller receives an error value.         *)
C11_BadTimestampIsErr ==
    [][ ( /\ outcome = "running" /\ Top.pc = "value" /\ Top.typ = "Date"
          /\ Top.num_elements >= 1 /\ Top.repeat >= 1
          /\ Left(Top) >= 16
          /\ ~DateParses(Slice(Top.buf, Top.pos, 16)) )
        => outcome' = "Err" ]_vars

(* The maximum nesting depth the decoder is to be configured with.  The    *)
(* source has no depth counter and no such constant; 2 stands for any      *)
(* configured value.                                                       *)
MaxDepth == 2

(* C12: the decoder counts the depth of its recursive Nested calls and     *)
(* fails with DepthExceeded past the configured maximum, so the number of  *)
(* active frames never exceeds that maximum whatever the input nests.      *)
C12_DepthBounded == Len(stack) <= MaxDepth

(* C13: after every record the decoder skips exactly                       *)
(* (4 - (size*repeat) mod 4) mod 4 bytes: a count in 0..3 that is 0 on a   *)
(* multiple of 4 and rounds size*repeat up to the next multiple of 4; the  *)
(* skip moves the cursor and changes nothing of the record just decoded.   *)
C13_PaddingSkipped ==
    [][ (outcome = "running" /\ Top.pc = "push") =>
            LET n == NumBytes(Top)
                P == (4 - (n % 4)) % 4
            IN  /\ P \in 0..3
                /\ (n + P) % 4 = 0
                /\ (n % 4 = 0 => P = 0)
                /\ Len(stack') = Len(stack)
                /\ Top'.pos = Top.pos + P
                /\ Top'.res = Append(Top.res, [key |-> Top.tag, value |-> Top.value]) ]_vars

(* C14: a Char record of size 1 whose key is not TYPE, with its whole run  *)
(* in the buffer, yields one string: the bytes of the repeat-byte run      *)
(* before its first NUL, or the whole run when it has none.  The NUL is no *)
(* error and the cursor moves past the whole run.                          *)
C14_CharRunIsString ==
    [][ ( /\ outcome = "running" /\ Top.pc = "value" /\ Top.typ = "Char"
          /\ Top.size = 1 /\ Top.tag # TagTYPE
          /\ Left(Top) >= Top.repeat )
        => LET run == Slice(Top.buf, Top.pos, Top.repeat)
               s   == Top'.value.v
           IN  /\ outcome' = "running"
               /\ Len(stack') = Len(stack)
               /\ Top'.pc = "push"
               /\ Top'.value.kind = "String"
               /\ Len(s) <= Len(run)
               /\ s = SubSeq(run, 1, Len(s))
               /\ \A i \in 1..Len(s) : s[i] # 0
               /\ Len(s) < Len(run) => run[Len(s) + 1] = 0
               /\ Top'.pos = Top.pos + Top.repeat ]_vars

(* The run "ab\0cd" has been decoded to "ab" and all 5 bytes consumed.     *)
C14_Witness ==
    /\ outcome = "running" /\ Top.pc = "push" /\ Top.typ = "Char"
    /\ Top.size = 1 /\ Top.repeat = 5 /\ Top.tag # TagTYPE
    /\ Slice(Top.buf, Top.hdr + 8, 5) = <<97, 98, 0, 99, 100>>
    /\ Top.value = [kind |-> "String", v |-> <<97, 98>>]
    /\ Top.pos = Top.hdr + 8 + 5

(* the number of bytes of run before its first NUL                         *)
PreNul(run) ==
    CHOOSE k \in 0..Len(run) :
        /\ \A i \in 1..k : run[i] # 0
        /\ k < Len(run) => run[k + 1] = 0

(* the wire type a tag byte names                                          *)
TypeNamed(b) == CHOOSE t \in TypeNames : Type[t] = b

(* the Value variant a scalar of wire type t is read into                  *)
ScalarKind(t) == IF t = "FourCC" THEN "Tag" ELSE t

(* C15: a Char record of size 1 under the key TYPE sets the frame's        *)
(* template to the wire types named by the bytes of its run before the     *)
(* first NUL and has that sequence as its value; at any time the template  *)
(* of a frame is the one of the last TYPE record decoded in that frame,    *)
(* and a Complex record is decoded with it: each of its element-sequences  *)
(* has one value per entry of that template, of that entry's type.         *)
C15_TypeRecordSetsTemplate ==
    \A d \in 1..Len(stack) :
        LET f == stack[d]
            run == Slice(f.buf, f.hdr + 8, f.repeat)
        IN  /\ ( /\ f.pc = "push" /\ f.typ = "Char" /\ f.size = 1
                 /\ f.tag = TagTYPE /\ Len(f.buf) >= f.hdr + 8 + f.repeat )
               => /\ f.value.kind = "Type"
                  /\ f.value.v = [i \in 1..PreNul(run) |-> TypeNamed(run[i])]
                  /\ f.type_def = [some |-> TRUE, v |-> f.value.v]
            /\ IF TypeRecordsOf(f) = {}
               THEN ~f.type_def.some
               ELSE /\ f.type_def.some
                    /\ f.type_def.v = RecordsOf(f)[LastOf(TypeRecordsOf(f))].value.v
            /\ (f.pc = "push" /\ f.typ = "Complex")
               => LET T == RecordsOf(f)[LastOf(TypeRecordsOf(f))].value.v
                  IN  /\ TypeRecordsOf(f) # {}
                      /\ f.value.kind = "Complex"
                      /\ \A k \in 1..Len(f.value.v) :
                            /\ Len(f.value.v[k]) = Len(T)
                            /\ \A i \in 1..Len(T) :
                                  f.value.v[k][i].kind = ScalarKind(T[i])

(* a Complex record decoded under [U8], the second template of its frame,  *)
(* after an earlier TYPE record had set [U32, I16]                         *)
C15_Witness ==
    /\ stack[1].pc = "push" /\ stack[1].typ = "Complex"
    /\ Len(stack[1].res) = 2
    /\ stack[1].res[1].value = [kind |-> "Type", v |-> <<"U32", "I16">>]
    /\ stack[1].res[2].value = [kind |-> "Type", v |-> <<"U8">>]
    /\ stack[1].value = [kind |-> "Complex", v |-> << <<[kind |-> "U8", v |-> <<5>>]>> >>]

(* the summed catalog widths of the first n entries of template T          *)
RECURSIVE WidthBefore(_, _)
WidthBefore(T, n) == IF n = 0 THEN 0 ELSE WidthBefore(T, n - 1) + TypeSize(T[n])

(* what a scalar of wire type t holds when read from bytes                 *)
ScalarOf(t, bytes) ==
    [kind |-> ScalarKind(t), v |-> IF t = "FourCC" THEN TagTryFrom(bytes) ELSE bytes]

(* C16: a decoded Complex record under template T has exactly repeat       *)
(* element-sequences of exactly |T| values each; the i-th value of the     *)
(* k-th sequence has wire type T[i] and is read from the bytes that follow *)
(* those of the values before it, in template order.  With T = [U32, I16], *)
(* size 6 and repeat 1 the record takes 6 payload bytes and then 2 padding *)
(* bytes.                                                                  *)
C16_ComplexFollowsTemplate ==
    \A d \in 1..Len(stack) :
        LET f == stack[d]
            T == f.type_def.v
            W == WidthBefore(T, Len(T))
        IN  /\ (f.pc = "push" /\ f.typ = "Complex")
               => /\ f.value.kind = "Complex"
                  /\ Len(f.value.v) = f.repeat
                  /\ \A k \in 1..f.repeat :
                        /\ Len(f.value.v[k]) = Len(T)
                        /\ \A i \in 1..Len(T) :
                              f.value.v[k][i] =
                                  ScalarOf(T[i], Slice(f.buf,
                                      f.hdr + 8 + (k - 1) * W + WidthBefore(T, i - 1),
                                      TypeSize(T[i])))
                  /\ f.pos = f.hdr + 8 + f.repeat * W
            /\ ( /\ f.typ = "Complex" /\ T = <<"U32", "I16">>
                 /\ f.size = 6 /\ f.repeat = 1 /\ Len(f.buf) >= f.hdr + 16 )
               => /\ f.pc = "push" => f.pos = f.hdr + 8 + 6
                  /\ f.pc = "loop" => f.pos = f.hdr + 8 + 6 + 2

(* the record GYRO '?' 06 00 01 under [U32, I16] came out as [[7, 9]] and  *)
(* the cursor is 16 bytes past its header                                  *)
C16_Witness ==
    /\ stack[1].pc = "loop" /\ stack[1].typ = "Complex"
    /\ stack[1].type_def.v = <<"U32", "I16">>
    /\ stack[1].size = 6 /\ stack[1].repeat = 1
    /\ stack[1].res[Len(stack[1].res)].value =
           [kind |-> "Complex",
            v |-> << << [kind |-> "U32", v |-> <<0, 0, 0, 7>>],
                        [kind |-> "I16", v |-> <<0, 9>>] >> >>]
    /\ stack[1].pos = stack[1].hdr + 16

(* the unsigned number a big-endian byte sequence stands for               *)
RECURSIVE BE(_)
BE(bytes) ==
    IF bytes = <<>> THEN 0
    ELSE 256 * BE(SubSeq(bytes, 1, Len(bytes) - 1)) + bytes[Len(bytes)]

(* C17: a decoded record of a primitive type other than Char, Complex and  *)
(* Nested has exactly repeat element-sequences of exactly                  *)
(* floor(size / width) values of that type each, read one after the other  *)
(* from the payload.  A U32 record of size 4 and repeat 1 over 00 00 00 01 *)
(* yields the single value 1 and no padding is skipped after it.           *)
C17_SimpleRowsOfElements ==
    \A d \in 1..Len(stack) :
        LET f == stack[d]
            w == TypeSize(f.typ)
            n == f.size \div w
        IN  (f.typ \in TypeNames \ {"Char", "Complex", "Nested"}) =>
            /\ f.pc = "push"
               => /\ f.value.kind = "Simple"
                  /\ Len(f.value.v) = f.repeat
                  /\ \A k \in 1..f.repeat :
                        /\ Len(f.value.v[k]) = n
                        /\ \A i \in 1..n :
                              f.value.v[k][i] =
                                  ScalarOf(f.typ, Slice(f.buf,
                                      f.hdr + 8 + ((k - 1) * n + (i - 1)) * w, w))
            /\ ( /\ f.typ = "U32" /\ f.size = 4 /\ f.repeat = 1
                 /\ f.pc \in {"push", "loop"}
                 /\ Slice(f.buf, f.hdr + 8, 4) = <<0, 0, 0, 1>> )
               => /\ LET val == RecordsOf(f)[Len(RecordsOf(f))].value
                     IN  /\ Len(val.v) = 1 /\ Len(val.v[1]) = 1
                         /\ val.v[1][1].kind = "U32"
                         /\ BE(val.v[1][1].v) = 1
                  /\ f.pos = f.hdr + 8 + 4

(* the U32 record of value 1 is in the results with the cursor right after *)
(* its payload, and a U16 record of size 3 and repeat 2 has been decoded   *)
(* to two element-sequences of one value each                              *)
C17_Witness ==
    /\ Len(stack[1].res) = 1
    /\ stack[1].res[1].value = [kind |-> "Simple",
                                v |-> << <<[kind |-> "U32", v |-> <<0, 0, 0, 1>>]>> >>]
    /\ stack[1].pc = "push" /\ stack[1].hdr = 12
    /\ stack[1].typ = "U16" /\ stack[1].size = 3 /\ stack[1].repeat = 2
    /\ Len(stack[1].value.v) = 2
    /\ Len(stack[1].value.v[1]) = 1

(* C18: for the Complex and Nested wire types the width lookup gives no    *)
(* usable number (a sentinel or an error instead), so no header of a       *)
(* Nested or Complex record is processed with a fixed positive width.      *)
C18_NoDefaultWidth ==
    \A d \in 1..Len(stack) :
        LET f == stack[d] IN
        (f.typ \in {"Complex", "Nested"} /\ f.pc # "loop")
        => ~(TypeSize(f.typ) >= 1)

(* C19: a record holding the maximum and then the minimum bit pattern of a *)
(* fixed-point width (32 bits for Q16.16, 64 bits for Q32.32) decodes      *)
(* without failure to exactly these two patterns, and their sum does not   *)
(* overflow: it is the pattern of all ones, -1.                            *)
C19_FixedMaxPlusMin ==
    [][ ( /\ outcome = "running" /\ Top.pc = "value"
          /\ Top.typ \in {"Fixed32", "Fixed64"}
          /\ Top.size = TypeSize(Top.typ) /\ Top.repeat = 2
          /\ Left(Top) >= 2 * Top.size
          /\ Slice(Top.buf, Top.pos, Top.size) = MaxBytes(Top.size)
          /\ Slice(Top.buf, Top.pos + Top.size, Top.size) = MinBytes(Top.size) )
        => /\ outcome' = "running"
           /\ Top'.pc = "push"
           /\ LET n   == 8 * Top.size
                  max == FromBeBytes(Top'.value.v[1][1].v)
                  min == FromBeBytes(Top'.value.v[2][1].v)
                  sum == FixedAdd(max, min)
              IN  /\ Top'.value.v[1][1].kind = Top.typ
                  /\ Top'.value.v[2][1].kind = Top.typ
                  /\ max = [i \in 1..n |-> IF i = 1 THEN 0 ELSE 1]
                  /\ min = [i \in 1..n |-> IF i = 1 THEN 1 ELSE 0]
                  /\ ~sum.overflow
                  /\ sum.bits = [i \in 1..n |-> 1] ]_vars

(* the 64-bit maximum and minimum have been decoded from one record        *)
C19_Witness ==
    /\ outcome = "running" /\ Top.pc = "push" /\ Top.typ = "Fixed64"
    /\ Top.size = 8 /\ Top.repeat = 2
    /\ Top.value.v = << <<[kind |-> "Fixed64", v |-> MaxBytes(8)]>>,
                        <<[kind |-> "Fixed64", v |-> MinBytes(8)]>> >>

(* C20: for every record of a type other than Nested, once the value is    *)
(* read and before the padding is skipped the cursor is exactly at         *)
(* header offset + 8 + size*repeat, also when size is no multiple of the   *)
(* type's width and when a Complex record's size is not the summed width   *)
(* of the template.                                                        *)
C20_CursorAfterValue ==
    \A d \in 1..Len(stack) :
        LET f == stack[d] IN
        (f.pc = "push" /\ f.typ # "Nested")
        => f.pos = f.hdr + 8 + NumBytes(f)

(* C21: a Complex record under an empty template has element width zero:  *)
(* its header is accepted with an element count of zero (no division by    *)
(* zero, no failure), its value is decoded without reading a byte, the     *)
(* record is emitted, and the decode goes on to the next header.           *)
C21_ZeroWidthContinues ==
    [][ /\ ( /\ AtHeader /\ Left(Top) >= 8 /\ TypeByteAt(Top) = 63
             /\ Top.type_def = [some |-> TRUE, v |-> <<>>] )
           => ( /\ outcome' = "running"
                /\ Top'.pc = "value"
                /\ Top'.num_elements = 0 )
        /\ ( /\ outcome = "running" /\ Top.pc = "value" /\ Top.typ = "Complex"
             /\ Top.type_def = [some |-> TRUE, v |-> <<>>] )
           => ( /\ outcome' = "running"
                /\ Top'.pc = "push"
                /\ Top'.value = [kind |-> "Complex", v |-> [k \in 1..Top.repeat |-> <<>>]]
                /\ Top'.pos = Top.pos )
        /\ ( /\ outcome = "running" /\ Top.pc = "push" /\ Top.typ = "Complex"
             /\ Top.type_def = [some |-> TRUE, v |-> <<>>] )
           => ( /\ outcome' = "running"
                /\ Top'.pc = "loop"
                /\ Top'.res = Append(Top.res, [key |-> Top.tag, value |-> Top.value]) )
      ]_vars

(* the call returned the empty TYPE record, the Complex record decoded     *)
(* under it with no elements, and the U32 record that followed             *)
C21_Witness ==
    /\ outcome = "Ok"
    /\ Len(result) = 3
    /\ result[1].value = [kind |-> "Type", v |-> <<>>]
    /\ result[2].value = [kind |-> "Complex", v |-> << <<>>, <<>> >>]
    /\ result[3].value = [kind |-> "Simple",
                          v |-> << <<[kind |-> "U32", v |-> <<0, 0, 0, 1>>]>> >>]

(* C22: a Char record of size > 1, with its payload in the buffer, yields  *)
(* exactly repeat strings; the k-th is the part before the first NUL of    *)
(* the k-th consecutive field of size bytes, whatever the other fields     *)
(* hold.  Under the key TYPE too the value is this sequence of strings and *)
(* the template is left as it was.                                         *)
C22_CharFieldsAreStrings ==
    [][ ( /\ outcome = "running" /\ Top.pc = "value" /\ Top.typ = "Char"
          /\ Top.size > 1
          /\ Left(Top) >= Top.size * Top.repeat )
        => LET field(k) == Slice(Top.buf, Top.pos + (k - 1) * Top.size, Top.size)
           IN  /\ outcome' = "running"
               /\ Len(stack') = Len(stack)
               /\ Top'.pc = "push"
               /\ Top'.value.kind = "Strings"
               /\ Len(Top'.value.v) = Top.repeat
               /\ \A k \in 1..Top.repeat :
                     Top'.value.v[k] = SubSeq(field(k), 1, PreNul(field(k)))
               /\ Top'.pos = Top.pos + Top.size * Top.repeat
               /\ Top'.type_def = Top.type_def ]_vars

(* the fields "a\0" and "bc" of a record of size 2 and repeat 2 came out   *)
(* as the strings "a" and "bc"                                             *)
C22_Witness ==
    /\ outcome = "running" /\ Top.pc = "push" /\ Top.typ = "Char"
    /\ Top.size = 2 /\ Top.repeat = 2
    /\ Top.value = [kind |-> "Strings", v |-> << <<97>>, <<98, 99>> >>]
    /\ Top.pos = Top.hdr + 8 + 4
    /\ Slice(Top.buf, Top.hdr + 8, 4) = <<97, 0, 98, 99>>

(* the byte widths of the primitive wire types                             *)
CatalogWidth(t) ==
    CASE t \in {"I8", "U8", "Char"} -> 1
      [] t \in {"I16", "U16"} -> 2
      [] t \in {"I32", "U32", "F32", "FourCC", "Fixed32"} -> 4
      [] t \in {"I64", "U64", "F64", "Fixed64"} -> 8
      [] t \in {"U128", "Date"} -> 16

(* the frame is about to decode exactly one scalar of primitive type t: a  *)
(* simple record of one element-sequence of one element, or a Complex      *)
(* record of one element-sequence under a one-entry template               *)
OneScalarOf(f, t) ==
    /\ f.pc = "value" /\ f.repeat = 1
    /\ t \in TypeNames \ {"Complex", "Nested"}
    /\ \/ f.typ = t /\ t # "Char" /\ f.num_elements = 1
       \/ f.typ = "Complex" /\ f.type_def = [some |-> TRUE, v |-> <<t>>]

(* C23: decoding one scalar of a primitive wire type fails with an error   *)
(* when fewer bytes than the type's catalog width remain, and otherwise    *)
(* takes exactly that many bytes from the cursor for the value.            *)
C23_ScalarConsumesWidth ==
    [][ \A t \in TypeNames \ {"Complex", "Nested"} :
          (outcome = "running" /\ OneScalarOf(Top, t))
          => IF Left(Top) < CatalogWidth(t)
             THEN outcome' = "Err" /\ error' = "UnexpectedEof"
             ELSE /\ outcome' # "Err"
                  /\ outcome' = "running"
                     => /\ Top'.pos = Top.pos + CatalogWidth(t)
                        /\ Top'.value.v =
                             << << ScalarOf(t, Slice(Top.buf, Top.pos, CatalogWidth(t))) >> >>
      ]_vars

(* the call failed on a U64 read with 7 bytes left                         *)
C23_Witness ==
    /\ outcome = "Err" /\ error = "UnexpectedEof"
    /\ OneScalarOf(Top, "U64")
    /\ Left(Top) = 7

(* C24: the records a frame returns are, in stream order, the records      *)
(* whose headers it read, one for one.  Headers are read at increasing     *)
(* offsets and each gives the record its key; the record is complete       *)
(* before the next header is read and is appended after all earlier ones;  *)
(* nothing else changes the sequence, and the sequence is what the call    *)
(* returns (as the value of the Nested record for a recursive call).  So   *)
(* every Complex record comes after a TYPE record of its frame.            *)
C24_OutputInStreamOrder ==
    [][ /\ (AtHeader /\ outcome' = "running" /\ Len(stack') = Len(stack) /\ Top'.pc = "value")
           => ( /\ Top'.res = Top.res
                /\ Top'.hdr = Top.pos
                /\ Len(Top.res) > 0 => Top'.hdr >= Top.hdr + 8
                /\ Top'.tag = TagTryFrom(KeyAt(Top)) )
        /\ (outcome = "running" /\ Top.pc = "value" /\ outcome' = "running")
           => ( /\ Len(stack') >= Len(stack)
                /\ stack'[Len(stack)].res = Top.res
                /\ stack'[Len(stack)].tag = Top.tag
                /\ stack'[Len(stack)].pc \in {"push", "call"}
                /\ Len(stack') > Len(stack) => Top'.res = <<>> /\ Top'.pc = "loop" )
        /\ (outcome = "running" /\ Top.pc = "push")
           => ( /\ outcome' = "running"
                /\ Len(stack') = Len(stack)
                /\ Top'.pc = "loop"
                /\ Top'.res = Append(Top.res, [key |-> Top.tag, value |-> Top.value]) )
        /\ (Len(stack') < Len(stack))
           => ( /\ Top'.res = stack[Len(stack) - 1].res
                /\ Top'.tag = stack[Len(stack) - 1].tag
                /\ Top'.pc = "push"
                /\ Top'.value = [kind |-> "Nested", v |-> Top.res] )
        /\ (outcome = "running" /\ outcome' = "Ok")
           => ( /\ Len(stack) = 1
                /\ result' = Top.res )
        /\ \A d \in 1..Len(stack') :
              \A i \in 1..Len(RecordsOf(stack'[d])) :
                  RecordsOf(stack'[d])[i].value.kind = "Complex"
                  => \E j \in 1..(i - 1) : RecordsOf(stack'[d])[j].value.kind = "Type"
      ]_vars

(* the call returned a TYPE record, the Complex record it governs and a    *)
(* U32 record, in the order of the buffer                                  *)
C24_Witness ==
    /\ outcome = "Ok"
    /\ input = RecTypeLs \o RecComplex6 \o RecU32
    /\ Len(result) = 3
    /\ result[1].key = TagTYPE /\ result[1].value.kind = "Type"
    /\ result[2].key = TagTryFrom(KeyGYRO) /\ result[2].value.kind = "Complex"
    /\ result[3].key = TagTryFrom(KeyTEST) /\ result[3].value.kind = "Simple"

(* A bound on the number of steps a call takes from a record boundary     *)
(* with r bytes left, its return included: an iteration takes 8 bytes for  *)
(* the header, and both the recursive call of a Nested record and the rest *)
(* of the loop then have at most r - 8 bytes to work on.                   *)
RECURSIVE StepsBound(_)
StepsBound(r) == IF r < 8 THEN 1 ELSE 3 + 2 * StepsBound(r - 8)

(* the steps frame f can still take or wait for                            *)
FrameRank(f) ==
    LET w == StepsBound(Left(f))
    IN  CASE f.pc = "loop"  -> w
          [] f.pc = "value" -> 2 + 2 * w
          [] f.pc = "call"  -> 1 + w
          [] f.pc = "push"  -> 1 + w

RECURSIVE RankUpTo(_)
RankUpTo(d) == IF d = 0 THEN 0 ELSE RankUpTo(d - 1) + FrameRank(stack[d])

(* the steps the top-level call can still take: none once it has ended     *)
Rank == IF outcome = "running" THEN RankUpTo(Len(stack)) ELSE 0

(* C25: parse_gpmf terminates on every input.  Every loop iteration that   *)
(* does not fail moves the cursor forward by the 8 header bytes, the rest  *)
(* of the iteration never moves it back or past the end of the buffer, and *)
(* every recursive call runs on a buffer strictly shorter than its         *)
(* caller's; so a natural number bounding the steps still to come          *)
(* decreases with every step, and a call that has not ended always has a   *)
(* next step.                                                              *)
C25_Terminates ==
    [][ /\ Rank' < Rank
        /\ Rank' >= 0
        /\ outcome' = "running"
           => /\ Top'.pc \in {"loop", "value", "push"}
              /\ Top'.pc = "value" => Top'.typ \in TypeNames
              /\ \A d \in 1..(Len(stack') - 1) : stack'[d].pc = "call"
        /\ (AtHeader /\ HasDataLeft(Top))
           => \/ outcome' # "running"
              \/ /\ Len(stack') = Len(stack)
                 /\ Top'.pos = Top.pos + 8
        /\ (outcome = "running" /\ Top.pc \in {"value", "push"}
              /\ outcome' = "running")
           => /\ stack'[Len(stack)].pos >= Top.pos
              /\ stack'[Len(stack)].pos <= Len(Top.buf)
        /\ (Len(stack') > Len(stack))
           => /\ Len(stack') = Len(stack) + 1
              /\ Len(Top'.buf) < Len(Top.buf)
              /\ Top'.pos = 0
        /\ (Len(stack') < Len(stack))
           => /\ Len(stack') = Len(stack) - 1
              /\ Top'.pos = stack[Len(stack) - 1].pos
      ]_vars

(* a call that went into a Nested record, decoded a record there and came  *)
(* back has returned                                                       *)
C25_Witness ==
    /\ outcome = "Ok"
    /\ Len(result) >= 2
    /\ result[1].value.kind = "Nested"
    /\ Len(result[1].value.v) >= 1

(* C26: a record whose declared payload of size*repeat bytes extends past  *)
(* the end of the buffer is never decoded: the call fails with an error,   *)
(* whatever the wire type.                                                 *)
C26_TruncatedPayloadIsErr ==
    [][ ( /\ outcome = "running" /\ Top.pc = "value"
          /\ NumBytes(Top) > Left(Top) )
        => outcome' = "Err" ]_vars

====
